---- MODULE Spec2Model ----
(***************************************************************************)
(* Organization-context resolution of the OAuth proxy: the /authorize and  *)
(* /token handlers, the three Redis mapping families (client:, refresh:,   *)
(* jwt:) with their TTLs, and the upstream identity provider they front.   *)
(*                                                                         *)
(* Time is counted in ticks of one hour; a key whose remaining TTL        *)
(* reaches 0 is gone.  Every awaited Redis command and the upstream fetch  *)
(* is one atomic step of a request, so requests interleave at exactly the  *)
(* await points of the handlers.                                           *)
(***************************************************************************)
EXTENDS Integers, Sequences, FiniteSets, TLC

\* ---------------------------------------------------------------- bounds
MaxCodes == 1        \* authorization codes outstanding at the upstream
MaxRefresh == 2      \* refresh tokens alive at a time
MaxJwt == 2          \* id_tokens alive at a time
MaxExpiresIn == 1    \* largest expires_in (ticks) of an upstream response
MaxCallers == 3      \* store calls running at a time
MaxParams == 3       \* query parameters of an /authorize request

\* ------------------------------------------------------ program constants
\* ttlSeconds: 60 * 60 of /authorize, in ticks
CLIENT_ORG_TTL == 1
\* REFRESH_TOKEN_ORG_TTL_SECONDS (environment-configured), in ticks
REFRESH_TOKEN_ORG_TTL == 2

\* ------------------------------------------------------------- universes
SHARED_CLIENT_IDS == {"S1"}
EphemeralClients == {"E1"}
Clients == SHARED_CLIENT_IDS \cup EphemeralClients
NoClient == ""
Orgs == {"O1", "O2"}
NoOrg == ""
GrantTypes == {"authorization_code", "refresh_token", "password"}
Slots == {1, 2}
MissingToken == 0
RefreshTokens == 1..MaxRefresh
Jwts == 1..MaxJwt
ExpiresIns == 1..MaxExpiresIn

\* ------------------------------------------------------------ SecretHasher
\* (mutant) the token itself is used where its digest belongs
hashOpaqueToken_Raw(token) == <<token>>

\* HMAC-SHA256 keyed with CLERK_SECRET_KEY: deterministic, injective on the
\* tokens of the model, and never the token itself.
hashOpaqueToken(token) == <<"hmac", token>>
hashJwt(jwt) == <<"hmac", jwt>>

RefreshKeys == {hashOpaqueToken(t) : t \in RefreshTokens}
JwtKeys == {hashJwt(j) : j \in Jwts}

\* ------------------------------------------------------------ KeyValueStore
\* A key is present iff its remaining TTL is positive.
NoEntry == [org |-> NoOrg, ttl |-> 0]
Present(map, key) == map[key].ttl > 0
\* SETEX key ttl value
SetEx(map, key, ttl, value) == [map EXCEPT ![key] = [org |-> value, ttl |-> ttl]]
\* GET key (null is NoOrg)
Get(map, key) == IF Present(map, key) THEN map[key].org ELSE NoOrg
\* EXPIRE key ttl: no effect on a missing key
Expire(map, key, ttl) ==
  IF Present(map, key) THEN [map EXCEPT ![key].ttl = ttl] ELSE map
\* DEL key
Del(map, key) == [map EXCEPT ![key] = NoEntry]
\* one tick of the store's clock
Age(map) ==
  [k \in DOMAIN map |-> IF map[k].ttl > 1
                        THEN [map[k] EXCEPT !.ttl = map[k].ttl - 1]
                        ELSE NoEntry]

VARIABLES
  envClerkDomain,  \* NEXT_PUBLIC_CLERK_DOMAIN is set
  envSecretKey,    \* CLERK_SECRET_KEY is set
  clientMap,       \* client:<id>            -> org, ttl
  refreshMap,      \* refresh:<hmac(token)>  -> org, ttl
  jwtMap,          \* jwt:<hmac(token)>      -> org, ttl
  codes,           \* upstream: the authorization codes not yet exchanged
  req,             \* the /token requests in flight, one per slot
  out,             \* the response sent by the last step, if it sent one
  authorized,      \* history: org and remaining window of the last /authorize
                   \* that stored client:<id>
  conn,            \* the store connection: client state, isConnected,
                   \* connectPromise
  calls,           \* the store calls in flight, one per caller
  authz,           \* the /authorize request being answered: its query, the
                   \* environment, and the response
  kv               \* the store as text: the keys and values persisted, and
                   \* the key every token was turned into

mainVars == <<envClerkDomain, envSecretKey, clientMap, refreshMap, jwtMap,
              codes, req, out, authorized>>
sideVars == <<conn, calls, authz, kv>>
vars == <<mainVars, sideVars>>

\* an authorization code stands for the /authorize call that produced it
NoCode == [client |-> NoClient, org |-> NoOrg]
CodeValues == [client : Clients, org : Orgs]

IdleReq ==
  [pc |-> "idle", grant |-> "", client |-> NoClient, directOrg |-> NoOrg,
   presented |-> MissingToken, code |-> NoCode, orgId |-> NoOrg,
   seenOrg |-> NoOrg, newRt |-> MissingToken, idToken |-> FALSE,
   expiresIn |-> 0]

NoEvent ==
  [kind |-> "none", status |-> "", grant |-> "", client |-> NoClient,
   presented |-> MissingToken, code |-> NoCode, orgId |-> NoOrg,
   seenOrg |-> NoOrg, access_token |-> 0, refresh_token |-> MissingToken,
   expires_in |-> 0, upstream |-> ""]

\* the store module before its first use: let isConnected = false,
\* connectPromise = null, a client that was never opened, no call running
Callers == 1..MaxCallers
NewConn == [state |-> "Disconnected", isConnected |-> FALSE,
            connectPromise |-> "null"]
\* a store call: where it stands, how often its operation was invoked, the
\* errors of the first and second invocation, and what the caller got
IdleCall == [pc |-> "idle", attempts |-> 0, first |-> "", second |-> "",
             result |-> ""]
\* no /authorize request is being looked at
NoAuthz == [phase |-> "idle", query |-> <<>>, clerkDomain |-> FALSE,
            storeOk |-> FALSE,
            response |-> [status |-> "", params |-> <<>>, stored |-> FALSE]]
\* an empty store
EmptyKv == [entries |-> {}, derived |-> {}]
SideIdle ==
  /\ conn = NewConn
  /\ calls = [c \in Callers |-> IdleCall]
  /\ authz = NoAuthz
  /\ kv = EmptyKv

Init ==
  /\ envClerkDomain \in BOOLEAN
  /\ envSecretKey \in BOOLEAN
  /\ clientMap = [c \in Clients |-> NoEntry]
  /\ refreshMap = [k \in RefreshKeys |-> NoEntry]
  /\ jwtMap = [k \in JwtKeys |-> NoEntry]
  /\ codes = {}
  /\ req = [r \in Slots |-> IdleReq]
  /\ out = NoEvent
  /\ authorized = [c \in Clients |-> NoEntry]
  /\ SideIdle

\* no /token request is in flight.  A request that fails before it touches
\* the store or the upstream answers the same in every state; such requests
\* are explored from the quiescent states only.
Quiescent == \A r \in Slots : req[r].pc = "idle"

\* ------------------------------------------------------------- /authorize
AuthorizeEvent(status, clientId, orgId) ==
  [NoEvent EXCEPT !.kind = "authorize", !.status = status,
                  !.client = clientId, !.orgId = orgId]

\* (mutant) the mapping is written with a longer TTL than the one passed
setOrgIdForClientId_LongTtl(clientId, orgId, ttlSeconds) ==
  /\ clientMap' = SetEx(clientMap, clientId, ttlSeconds + 1, orgId)
  /\ authorized' = SetEx(authorized, clientId, CLIENT_ORG_TTL, orgId)

\* (mutant) the call returns without the mapping written
setOrgIdForClientId_Dropped(clientId, orgId, ttlSeconds) ==
  UNCHANGED <<clientMap, authorized>>

\* setOrgIdForClientId: SETEX client:<id>
setOrgIdForClientId(clientId, orgId, ttlSeconds) ==
  /\ clientMap' = SetEx(clientMap, clientId, ttlSeconds, orgId)
  /\ authorized' = SetEx(authorized, clientId, CLIENT_ORG_TTL, orgId)

\* (mutant) every client is stored, the shared ones too
AuthorizeStores_All(clientId) == clientId \in Clients

\* Step 5 of GET: only clients outside the allow-list are stored
AuthorizeStores(clientId) == clientId \notin SHARED_CLIENT_IDS

\* GET /authorize.  The handler awaits once (the store write); the redirect
\* to the upstream follows it, and the upstream may then hand the caller an
\* authorization code for (client, org).
AuthorizeGET ==
  /\ UNCHANGED <<sideVars, envClerkDomain, envSecretKey, refreshMap, jwtMap, req>>
  /\ \/ \* Step 2: client_id is missing
        /\ Quiescent
        /\ out' = AuthorizeEvent("invalid_request", NoClient, NoOrg)
        /\ UNCHANGED <<clientMap, codes, authorized>>
     \/ \* Step 3: no org chosen yet
        /\ Quiescent
        /\ \E clientId \in Clients :
             out' = AuthorizeEvent("redirect_select_org", clientId, NoOrg)
        /\ UNCHANGED <<clientMap, codes, authorized>>
     \/ \* Step 4: the upstream domain is not configured
        /\ Quiescent
        /\ ~envClerkDomain
        /\ \E clientId \in Clients, selectedOrgId \in Orgs :
             out' = AuthorizeEvent("server_error", clientId, selectedOrgId)
        /\ UNCHANGED <<clientMap, codes, authorized>>
     \/ \* Step 5: the store write fails
        /\ Quiescent
        /\ envClerkDomain
        /\ \E clientId \in Clients, selectedOrgId \in Orgs :
             /\ AuthorizeStores(clientId)
             /\ out' = AuthorizeEvent("server_error", clientId, selectedOrgId)
        /\ UNCHANGED <<clientMap, codes, authorized>>
     \/ \* Steps 5-8: store (ephemeral clients) and redirect to the upstream
        /\ envClerkDomain
        /\ \E clientId \in Clients, selectedOrgId \in Orgs, login \in BOOLEAN :
             /\ AuthorizeStores(clientId) \/ Quiescent
             /\ IF AuthorizeStores(clientId)
                THEN setOrgIdForClientId(clientId, selectedOrgId, CLIENT_ORG_TTL)
                ELSE UNCHANGED <<clientMap, authorized>>
             /\ out' = AuthorizeEvent("redirect_upstream", clientId, selectedOrgId)
             /\ IF login /\ Cardinality(codes) < MaxCodes
                THEN codes' = codes \cup {[client |-> clientId,
                                           org |-> selectedOrgId]}
                ELSE UNCHANGED codes

\* ------------------------------------------------------------------ time
Tick ==
  /\ clientMap' = Age(clientMap)
  /\ refreshMap' = Age(refreshMap)
  /\ jwtMap' = Age(jwtMap)
  /\ authorized' = Age(authorized)
  /\ out' = NoEvent
  /\ UNCHANGED <<sideVars, envClerkDomain, envSecretKey, codes, req>>

\* ----------------------------------------------------------------- /token
Pcs == {"rt_get", "rt_expire", "fetch", "cl_get", "rt_del", "rt_set", "jwt_set"}

\* what a step that ends a request reports: the response and the request it
\* answers
TokenEvent(rq, status) ==
  [NoEvent EXCEPT !.kind = "token", !.status = status, !.grant = rq.grant,
                  !.client = rq.client, !.presented = rq.presented,
                  !.code = rq.code, !.orgId = rq.orgId, !.seenOrg = rq.seenOrg]

\* createErrorResponse: the request ends with a structured error
Reply(r, rq, status) ==
  /\ out' = TokenEvent(rq, status)
  /\ req' = [req EXCEPT ![r] = IdleReq]

\* the request goes on to its next await, or ends with the error `target`
Goto(r, rq, target) ==
  IF target \in Pcs
  THEN /\ req' = [req EXCEPT ![r] = [rq EXCEPT !.pc = target]]
       /\ out' = NoEvent
  ELSE Reply(r, rq, target)

\* a store call succeeds when the command went through and, for the calls
\* that hash a token, CLERK_SECRET_KEY is set
StoreOk(ok, hashes) == ok /\ (hashes => envSecretKey)

\* the refresh tokens a caller can present: any but one that only a request
\* still in flight has received.  A token without a mapping is an expired or
\* unknown one.
Known ==
  {t \in RefreshTokens :
     \A r \in Slots : req[r].newRt = t => req[r].presented = t}

\* resolveOrgId: which source of the org the branches select
resolveOrgId(grantType, clientId, directOrgId, refreshToken) ==
  IF clientId \in SHARED_CLIENT_IDS THEN
    IF directOrgId # NoOrg THEN "direct"
    ELSE IF grantType = "refresh_token" /\ refreshToken # MissingToken
      THEN "refresh_mapping"
    ELSE "invalid_grant"
  ELSE IF grantType = "authorization_code" THEN "client_mapping"
  ELSE IF grantType = "refresh_token" THEN
    IF refreshToken = MissingToken THEN "invalid_request" ELSE "refresh_mapping"
  ELSE "unsupported_grant_type"

\* (mutant) the refresh mapping is written on rotation only
AfterResolve_RotationOnly(rq) ==
  IF rq.orgId = NoOrg THEN "invalid_grant"
  ELSE IF rq.grant \notin {"authorization_code", "refresh_token"}
    THEN "unsupported_grant_type"
  ELSE IF ~rq.idToken THEN "invalid_grant"
  ELSE IF rq.newRt = MissingToken THEN "jwt_set"
  ELSE IF rq.grant = "refresh_token" THEN "rt_del"
  ELSE "jwt_set"

\* Steps 6-8 of POST, after the org is resolved: where the request goes next
AfterResolve(rq) ==
  IF rq.orgId = NoOrg THEN "invalid_grant"
  ELSE IF rq.grant \notin {"authorization_code", "refresh_token"}
    THEN "unsupported_grant_type"
  ELSE IF ~rq.idToken THEN "invalid_grant"
  ELSE IF rq.newRt = MissingToken THEN "jwt_set"
  ELSE IF rq.grant = "refresh_token" THEN "rt_del"
  ELSE "rt_set"

\* A new request takes the lowest idle slot.
Arrives(r) ==
  /\ req[r].pc = "idle"
  /\ \A q \in Slots : q < r => req[q].pc # "idle"

\* POST /token, steps 1-3: the requests that end before the first await
TokenStartRejected(r) ==
  /\ Arrives(r)
  /\ Quiescent
  /\ UNCHANGED <<sideVars, envClerkDomain, envSecretKey, clientMap, refreshMap, jwtMap,
                 codes, authorized>>
  /\ \/ \* Content-Type is not application/x-www-form-urlencoded
        Reply(r, IdleReq, "invalid_request")
     \/ \* request.formData() throws, outside the try block
        Reply(r, IdleReq, "exception")
     \/ \* Step 2: the upstream domain is not configured
        /\ ~envClerkDomain
        /\ Reply(r, IdleReq, "server_error")
     \/ \* client_id is missing
        /\ envClerkDomain
        /\ \E grantType \in GrantTypes :
             Reply(r, [IdleReq EXCEPT !.grant = grantType], "invalid_request")
     \/ \* refresh flow without refresh_token
        /\ envClerkDomain
        /\ \E clientId \in Clients :
             Reply(r, [IdleReq EXCEPT !.grant = "refresh_token",
                                      !.client = clientId], "invalid_request")

\* POST /token, refresh flow: the org is resolved before the upstream is
\* called
TokenStartRefresh(r) ==
  /\ Arrives(r)
  /\ envClerkDomain
  /\ UNCHANGED <<sideVars, envClerkDomain, envSecretKey, clientMap, refreshMap, jwtMap,
                 codes, authorized>>
  /\ \E clientId \in Clients, directOrgId \in Orgs \cup {NoOrg},
        refreshToken \in Known :
       LET rq == [IdleReq EXCEPT !.grant = "refresh_token",
                                 !.client = clientId,
                                 !.presented = refreshToken]
           path == resolveOrgId("refresh_token", clientId, directOrgId,
                                refreshToken)
       IN
       IF path = "direct" THEN
         Goto(r, [rq EXCEPT
                    !.orgId = directOrgId,
                    !.seenOrg = Get(refreshMap, hashOpaqueToken(refreshToken))],
              "fetch")
       ELSE IF path = "refresh_mapping" THEN Goto(r, rq, "rt_get")
       ELSE Reply(r, rq, path)

\* POST /token, every other grant type: the upstream is called first.  (A
\* code of another client is refused by the upstream like no code at all.)
TokenStartExchange(r) ==
  /\ Arrives(r)
  /\ envClerkDomain
  /\ UNCHANGED <<sideVars, envClerkDomain, envSecretKey, clientMap, refreshMap, jwtMap,
                 codes, authorized>>
  /\ \E grantType \in GrantTypes \ {"refresh_token"}, clientId \in Clients,
        directOrgId \in Orgs \cup {NoOrg}, code \in codes \cup {NoCode} :
       /\ grantType = "authorization_code" \/ code = NoCode
       /\ code.client \in {clientId, NoClient}
       /\ Goto(r, [IdleReq EXCEPT !.grant = grantType, !.client = clientId,
                                  !.directOrg = directOrgId, !.code = code],
               "fetch")

\* (mutant) a lookup that finds nothing is reported like a store failure
OnMissingMapping_ServerError == "server_error"

\* (mutant) a refresh whose lookup finds nothing goes on to the upstream
OnMissingMapping_GoesOn == "fetch"

\* (mutant) a lookup that finds nothing lets the request go on to its writes
OnMissingMapping_Persists == "jwt_set"

\* resolveOrgId: what a lookup that finds no mapping ends in
OnMissingMapping == "invalid_grant"

\* what the request does with the answer of GET refresh:<hash>; ok: the
\* command went through
SlidingGetReturns(r, ok) ==
  LET orgId == Get(refreshMap, hashOpaqueToken(req[r].presented))
      rq == [req[r] EXCEPT !.seenOrg = orgId, !.orgId = orgId]
  IN
  IF ~StoreOk(ok, TRUE) THEN Reply(r, req[r], "server_error")
  ELSE IF orgId # NoOrg THEN Goto(r, rq, "rt_expire")
  ELSE Goto(r, rq, OnMissingMapping)

\* getOrgIdForRefreshTokenSliding, first command: GET refresh:<hash>
SlidingGet(r) ==
  /\ req[r].pc = "rt_get"
  /\ UNCHANGED <<sideVars, envClerkDomain, envSecretKey, clientMap, refreshMap, jwtMap,
                 codes, authorized>>
  /\ \E ok \in BOOLEAN : SlidingGetReturns(r, ok)

\* getOrgIdForRefreshTokenSliding, second command: EXPIRE refresh:<hash>
SlidingExpire(r) ==
  /\ req[r].pc = "rt_expire"
  /\ UNCHANGED <<sideVars, envClerkDomain, envSecretKey, clientMap, jwtMap, codes,
                 authorized>>
  /\ \E ok \in BOOLEAN :
       IF StoreOk(ok, FALSE)
       THEN /\ refreshMap' = Expire(refreshMap, hashOpaqueToken(req[r].presented),
                                    REFRESH_TOKEN_ORG_TTL)
            /\ Goto(r, req[r], "fetch")
       ELSE /\ UNCHANGED refreshMap
            /\ Reply(r, [req[r] EXCEPT !.orgId = NoOrg], "server_error")

\* the upstream token endpoint accepts the grant of the request
UpstreamAccepts(rq) ==
  IF rq.grant = "authorization_code"
    THEN /\ rq.code \in codes
         /\ rq.code.client = rq.client
  ELSE TRUE

\* the least element of a set of numbers, as a set (empty for the empty set)
Least(S) == {x \in S : \A y \in S : x <= y}

\* a token the upstream mints is new: its name is one that no mapping and no
\* request in flight refers to (names of dead tokens are used again)
NewRefreshToken ==
  Least({t \in RefreshTokens :
           /\ ~Present(refreshMap, hashOpaqueToken(t))
           /\ \A r \in Slots : req[r].presented # t /\ req[r].newRt # t})
\* an id_token gets its name at the step that first uses its value; the
\* upstream mints one only while a name is left for it
FreeJwts == {j \in Jwts : ~Present(jwtMap, hashJwt(j))}
NewIdToken == Least(FreeJwts)

\* the refresh tokens an accepted grant may return: none, a new one, or (on a
\* refresh without rotation) the presented one
UpstreamRefreshTokens(rq) ==
  {MissingToken} \cup NewRefreshToken
    \cup (IF rq.grant = "refresh_token" THEN {rq.presented} ELSE {})

\* whether an accepted grant returns an id_token: it may, or may not
UpstreamIdTokens ==
  {FALSE} \cup (IF Cardinality(FreeJwts)
                      > Cardinality({r \in Slots : req[r].idToken})
                 THEN {TRUE} ELSE {})

\* (mutant) an upstream rejection is reported as a fault of the server
OnUpstreamRejection_ServerError == "server_error"

\* Step 4 of POST: what !clerkTokenResponse.ok ends in
OnUpstreamRejection == "invalid_grant"

\* (mutant) a fetch that throws is issued again
OnFetchFailure_Retry == "fetch"

\* the catch-all of POST: a fetch that throws ends the request
OnFetchFailure == "server_error"

\* Step 4 of POST: fetch of the upstream token endpoint, then steps 5-7 up
\* to the next await
Fetch(r) ==
  /\ req[r].pc = "fetch"
  /\ UNCHANGED <<sideVars, envClerkDomain, envSecretKey, clientMap, refreshMap, jwtMap,
                 authorized>>
  /\ \/ \* the fetch or the decoding of its body throws
        /\ Goto(r, [req[r] EXCEPT !.directOrg = NoOrg], OnFetchFailure)
        /\ UNCHANGED codes
     \/ \* non-2xx
        /\ req' = [req EXCEPT ![r] = IdleReq]
        /\ out' = [TokenEvent([req[r] EXCEPT !.directOrg = NoOrg],
                              OnUpstreamRejection)
                     EXCEPT !.upstream = "non-2xx"]
        /\ UNCHANGED codes
     \/ /\ UpstreamAccepts(req[r])
        /\ \E refresh_token \in UpstreamRefreshTokens(req[r]),
              id_token \in UpstreamIdTokens, expires_in \in ExpiresIns :
             LET rq == [req[r] EXCEPT !.newRt = refresh_token,
                                      !.idToken = id_token,
                                      !.expiresIn = expires_in,
                                      !.directOrg = NoOrg]
                 path == resolveOrgId(rq.grant, rq.client, req[r].directOrg,
                                      MissingToken)
                 direct == [rq EXCEPT !.orgId = req[r].directOrg]
             IN
             /\ codes' = codes \ {rq.code}
             /\ IF rq.orgId # NoOrg THEN Goto(r, rq, AfterResolve(rq))
                ELSE IF path = "direct" THEN Goto(r, direct, AfterResolve(direct))
                ELSE IF path = "client_mapping" THEN Goto(r, rq, "cl_get")
                ELSE Reply(r, rq, path)

\* what the request does with the answer of GET client:<id>; ok: the
\* command went through
ClientGetReturns(r, ok) ==
  LET orgId == Get(clientMap, req[r].client)
      rq == [req[r] EXCEPT !.orgId = orgId, !.seenOrg = orgId]
  IN
  IF ~StoreOk(ok, FALSE) THEN Reply(r, req[r], "server_error")
  ELSE IF orgId = NoOrg THEN Goto(r, rq, OnMissingMapping)
  ELSE Goto(r, rq, AfterResolve(rq))

\* getOrgIdForClientId: GET client:<id>, then steps 6-7 of POST
getOrgIdForClientId(r) ==
  /\ req[r].pc = "cl_get"
  /\ UNCHANGED <<sideVars, envClerkDomain, envSecretKey, clientMap, refreshMap, jwtMap,
                 codes, authorized>>
  /\ \E ok \in BOOLEAN : ClientGetReturns(r, ok)

\* Step 8 of POST, refresh flow: the old mapping is cleaned up first, and a
\* failure of the delete is logged and ignored
deleteOrgIdForRefreshToken(r) ==
  /\ req[r].pc = "rt_del"
  /\ UNCHANGED <<sideVars, envClerkDomain, envSecretKey, clientMap, jwtMap, codes,
                 authorized>>
  /\ \E ok \in BOOLEAN :
       /\ refreshMap' = IF StoreOk(ok, TRUE)
                        THEN Del(refreshMap, hashOpaqueToken(req[r].presented))
                        ELSE refreshMap
       /\ Goto(r, req[r], "rt_set")

\* Step 8 of POST: SETEX refresh:<hash(returned refresh token)>
setOrgIdForRefreshToken(r) ==
  /\ req[r].pc = "rt_set"
  /\ UNCHANGED <<sideVars, envClerkDomain, envSecretKey, clientMap, jwtMap, codes,
                 authorized>>
  /\ \E ok \in BOOLEAN :
       IF StoreOk(ok, TRUE)
       THEN /\ refreshMap' = SetEx(refreshMap, hashOpaqueToken(req[r].newRt),
                                   REFRESH_TOKEN_ORG_TTL, req[r].orgId)
            /\ Goto(r, req[r], "jwt_set")
       ELSE /\ UNCHANGED refreshMap
            /\ Reply(r, req[r], "server_error")

\* (mutant) the issued-token mapping gets the refresh window
JwtTtl_RefreshWindow(rq) == REFRESH_TOKEN_ORG_TTL

\* the TTL written with the issued-token mapping
JwtTtl(rq) == rq.expiresIn

\* (mutant) the response is built from the minted token alone
mcpTokenResponse_Minted(rq, finalJwt) ==
  [TokenEvent(rq, "200") EXCEPT !.access_token = finalJwt,
                                !.expires_in = rq.expiresIn]

\* Step 10 of POST: { ...clerkTokens, access_token: finalJwt, expires_in }
mcpTokenResponse(rq, finalJwt) ==
  [TokenEvent(rq, "200") EXCEPT !.access_token = finalJwt,
                                !.refresh_token = rq.newRt,
                                !.expires_in = rq.expiresIn]

\* Steps 9-10 of POST: SETEX jwt:<hash(id_token)> with the token's lifetime,
\* then the 200 response (SETEX rejects a TTL that is not positive)
setOrgIdForJwt(r) ==
  /\ req[r].pc = "jwt_set"
  /\ UNCHANGED <<sideVars, envClerkDomain, envSecretKey, clientMap, refreshMap, codes,
                 authorized>>
  /\ \E ok \in BOOLEAN :
       IF StoreOk(ok, TRUE) /\ JwtTtl(req[r]) > 0
       THEN /\ \E finalJwt \in NewIdToken :
                 /\ jwtMap' = SetEx(jwtMap, hashJwt(finalJwt), JwtTtl(req[r]),
                                    req[r].orgId)
                 /\ out' = mcpTokenResponse(req[r], finalJwt)
            /\ req' = [req EXCEPT ![r] = IdleReq]
       ELSE /\ UNCHANGED jwtMap
            /\ Reply(r, req[r], "server_error")

TokenPOST(r) ==
  \/ TokenStartRejected(r)
  \/ TokenStartRefresh(r)
  \/ TokenStartExchange(r)
  \/ SlidingGet(r)
  \/ SlidingExpire(r)
  \/ Fetch(r)
  \/ getOrgIdForClientId(r)
  \/ deleteOrgIdForRefreshToken(r)
  \/ setOrgIdForRefreshToken(r)
  \/ setOrgIdForJwt(r)

\* the refresh flow alone
TokenRefresh(r) ==
  \/ TokenStartRefresh(r)
  \/ SlidingGet(r)
  \/ SlidingExpire(r)
  \/ Fetch(r)
  \/ deleteOrgIdForRefreshToken(r)
  \/ setOrgIdForRefreshToken(r)
  \/ setOrgIdForJwt(r)

\* ---------------------------------------------------------- specifications
\* Spec: /authorize calls, the clock and /token requests, one /token request
\* at a time (every /authorize call and every tick can fall between two
\* steps of the request).
SeqSlots == {1}
Next == AuthorizeGET \/ Tick \/ (\E r \in SeqSlots : TokenPOST(r))

Spec == Init /\ [][Next]_vars

\* SpecRace: two concurrent refresh_token requests, and the clock, in a
\* deployment with an established session: refresh token 1 is mapped to O1.
InitRace ==
  /\ envClerkDomain = TRUE
  /\ envSecretKey = TRUE
  /\ clientMap = [c \in Clients |-> NoEntry]
  /\ refreshMap = [k \in RefreshKeys |->
                     IF k = hashOpaqueToken(1)
                     THEN [org |-> "O1", ttl |-> REFRESH_TOKEN_ORG_TTL]
                     ELSE NoEntry]
  /\ jwtMap = [k \in JwtKeys |-> NoEntry]
  /\ codes = {}
  /\ req = [r \in Slots |-> IdleReq]
  /\ out = NoEvent
  /\ authorized = [c \in Clients |-> NoEntry]
  /\ SideIdle

NextRace == Tick \/ (\E r \in Slots : TokenRefresh(r))

SpecRace == InitRace /\ [][NextRace]_vars

\* ------------------------------------------------- the store connection
\* What a store call does with the connection; the keys it touches are
\* those of the handlers above and play no part here.  JavaScript runs one
\* callback at a time, so every step below is the code between two awaits.

\* (mutant) no caller ever joins a running attempt
JoinsAttempt_Never(cn) == FALSE

\* ensureConnected: if (connectPromise) return await connectPromise
JoinsAttempt(cn) == cn.connectPromise = "pending"

\* the operation of a call is invoked (once more)
Invoke(cl) == [cl EXCEPT !.pc = "op", !.attempts = cl.attempts + 1]

\* ensureConnected up to its first await, for the call cl on connection cn:
\* the connection and the call afterwards
ensureConnected(cn, cl) ==
  IF cn.state = "Ready" THEN [conn |-> cn, call |-> Invoke(cl)]
  ELSE IF cn.state # "Disconnected" /\ cn.isConnected
    THEN [conn |-> cn, call |-> Invoke(cl)]
  ELSE IF JoinsAttempt(cn)
    THEN [conn |-> cn, call |-> [cl EXCEPT !.pc = "awaiting"]]
  ELSE [conn |-> [cn EXCEPT !.state = "Connecting",
                            !.connectPromise = "pending"],
        call |-> [cl EXCEPT !.pc = "connecting"]]

\* a handler calls one of the store functions: await ensureConnected()
StoreCall(c) ==
  /\ calls[c].pc \in {"idle", "done"}
  /\ LET e == ensureConnected(conn, IdleCall)
     IN /\ conn' = e.conn
        /\ calls' = [calls EXCEPT ![c] = e.call]
  /\ UNCHANGED <<mainVars, authz, kv>>

\* client.connect() settles.  The then / catch / finally callbacks and the
\* continuations of every caller awaiting the promise run before any other
\* event is taken.
ConnectSettles(c) ==
  /\ calls[c].pc = "connecting"
  /\ \E ok \in BOOLEAN :
       /\ conn' = IF ok
                  THEN [state |-> "Ready", isConnected |-> TRUE,
                        connectPromise |-> "null"]
                  ELSE [state |-> "Disconnected", isConnected |-> FALSE,
                        connectPromise |-> "null"]
       /\ calls' = [d \in Callers |->
                      IF d = c \/ calls[d].pc = "awaiting"
                      THEN IF ok THEN Invoke(calls[d])
                           ELSE [calls[d] EXCEPT !.pc = "done",
                                                 !.result = "connect_error"]
                      ELSE calls[d]]
  /\ UNCHANGED <<mainVars, authz, kv>>

OpErrors == {"", "transient", "fatal"}

\* (mutant) the operation is retried as long as the error is transient
Retries_AnyAttempt(cl, err) == err = "transient"

\* withReconnect: the catch block of the first invocation retries on
\* isTransientSocketError; the second invocation is outside of any try
Retries(cl, err) == err = "transient" /\ cl.attempts = 1

\* withReconnect: an invocation of the operation settles
OpSettles(c) ==
  /\ calls[c].pc = "op"
  /\ \E err \in OpErrors :
       LET cl == IF calls[c].attempts = 1
                 THEN [calls[c] EXCEPT !.first = err]
                 ELSE [calls[c] EXCEPT !.second = err]
           e == ensureConnected([conn EXCEPT !.isConnected = FALSE], cl)
       IN
       /\ err = "" => conn.state = "Ready"
       /\ IF err = "" THEN
            /\ calls' = [calls EXCEPT ![c] = [cl EXCEPT !.pc = "done",
                                                        !.result = "ok"]]
            /\ UNCHANGED conn
          ELSE IF Retries(cl, err) THEN
            /\ conn' = e.conn
            /\ calls' = [calls EXCEPT ![c] = e.call]
          ELSE
            /\ calls' = [calls EXCEPT ![c] = [cl EXCEPT !.pc = "done",
                                                        !.result = "op_error"]]
            /\ UNCHANGED conn
  /\ UNCHANGED <<mainVars, authz, kv>>

\* client.on("error") / client.on("end"): the socket of a ready client goes
ConnectionDrops ==
  /\ conn.state = "Ready"
  /\ conn' = [conn EXCEPT !.state = "Disconnected", !.isConnected = FALSE]
  /\ UNCHANGED <<calls, mainVars, authz, kv>>

\* SpecStore: concurrent store calls on one connection
InitStore ==
  /\ envClerkDomain = TRUE
  /\ envSecretKey = TRUE
  /\ clientMap = [c \in Clients |-> NoEntry]
  /\ refreshMap = [k \in RefreshKeys |-> NoEntry]
  /\ jwtMap = [k \in JwtKeys |-> NoEntry]
  /\ codes = {}
  /\ req = [r \in Slots |-> IdleReq]
  /\ out = NoEvent
  /\ authorized = [c \in Clients |-> NoEntry]
  /\ SideIdle

NextStore ==
  \/ \E c \in Callers : StoreCall(c)
  \/ \E c \in Callers : ConnectSettles(c)
  \/ \E c \in Callers : OpSettles(c)
  \/ ConnectionDrops

SpecStore == InitStore /\ [][NextStore]_vars

\* ------------------------------------------- /authorize, as a function
\* GET /authorize as a function of its query string and environment.  A
\* string is a tuple of atoms; base64 and JSON are written out so that
\* decoding is a computation on the text, which can fail.

Null == <<"(null)">>                 \* searchParams.get of an absent name
EmptyString == <<>>
Truthy(v) == v # Null /\ v # EmptyString

\* JSON.stringify({csrf, org_id}) and Buffer.from(text).toString("base64")
Stringify(csrf, org_id) ==
  <<"{csrf:">> \o csrf \o <<",org_id:">> \o org_id \o <<"}">>
Base64(text) == <<"b64[">> \o text \o <<"]">>
\* Buffer.from(s, "base64").toString(): never throws; text that is no
\* base64 comes out as other bytes
FromBase64(s) ==
  IF Len(s) >= 2 /\ s[1] = "b64[" /\ s[Len(s)] = "]"
  THEN SubSeq(s, 2, Len(s) - 1)
  ELSE <<"(bytes)">> \o s
\* JSON.parse: the positions of the two fields of an object text, 0 when
\* the text is an object without them
IsObjectText(t) ==
  /\ Len(t) >= 2 /\ t[Len(t)] = "}"
  /\ \/ t[1] = "{"
     \/ t[1] = "{csrf:" /\ \E i \in 2..Len(t) : t[i] = ",org_id:"
OrgIdAt(t) ==
  IF t[1] = "{" THEN 0
  ELSE CHOOSE i \in 2..Len(t) :
         /\ t[i] = ",org_id:"
         /\ \A j \in (i + 1)..Len(t) : t[j] # ",org_id:"
\* parsedState.csrf and parsedState.org_id (Null: undefined)
CsrfField(t) == IF t[1] = "{" THEN Null ELSE SubSeq(t, 2, OrgIdAt(t) - 1)
OrgIdField(t) ==
  IF t[1] = "{" THEN Null ELSE SubSeq(t, OrgIdAt(t) + 1, Len(t) - 1)

\* Step 6, lines 134-150: the CSRF value taken from the incoming state
CsrfToken(originalState) ==
  IF ~Truthy(originalState) THEN EmptyString
  ELSE LET decodedState == FromBase64(originalState) IN
       IF IsObjectText(decodedState) /\ Truthy(CsrfField(decodedState))
       THEN CsrfField(decodedState)
       ELSE originalState

\* URLSearchParams: a sequence of name / value pairs
Param(k, v) == [k |-> k, v |-> v]
IndexOf(q, k) ==
  LET I == {i \in 1..Len(q) : q[i].k = k}
  IN IF I = {} THEN 0 ELSE CHOOSE i \in I : \A j \in I : i <= j
searchParamsGet(q, k) == IF IndexOf(q, k) = 0 THEN Null ELSE q[IndexOf(q, k)].v
\* set: the first pair of that name takes the value and the others go
searchParamsSet(q, k, v) ==
  LET i == IndexOf(q, k)
      Other(p) == p.k # k
  IN IF i = 0 THEN Append(q, Param(k, v))
     ELSE SubSeq(q, 1, i - 1) \o <<Param(k, v)>>
            \o SelectSeq(SubSeq(q, i + 1, Len(q)), Other)
\* searchParams.forEach((value, key) => target.searchParams.set(key, value))
\* for the names outside skip
RECURSIVE CopyParams(_, _, _)
CopyParams(q, skip, target) ==
  IF q = <<>> THEN target
  ELSE CopyParams(Tail(q), skip,
                  IF Head(q).k \in skip THEN target
                  ELSE searchParamsSet(target, Head(q).k, Head(q).v))

\* (mutant) the redirect to the org selector loses the state parameter
SelectOrgParams_NoState(q) == CopyParams(q, {"state"}, <<>>)

\* Step 3: the query of the redirect to /select-org
SelectOrgParams(q) == CopyParams(q, {}, <<>>)

\* (mutant) the state is re-encoded for every client (the older handler)
EncodesState_Always(clientId) == TRUE

\* Step 6: only the state of shared clients is re-encoded
EncodesState(clientId) == clientId \in {<<c>> : c \in SHARED_CLIENT_IDS}

Response(status, params, stored) ==
  [status |-> status, params |-> params, stored |-> stored]

\* GET: the response to query q; clerkDomain: NEXT_PUBLIC_CLERK_DOMAIN is
\* set; storeOk: a store write would go through
GET(q, clerkDomain, storeOk) ==
  LET clientId == searchParamsGet(q, "client_id")
      selectedOrgId == searchParamsGet(q, "org_id")
      originalState == searchParamsGet(q, "state")
      stores == clientId \notin {<<c>> : c \in SHARED_CLIENT_IDS}
      modifiedState ==
        IF EncodesState(clientId)
        THEN Base64(Stringify(CsrfToken(originalState), selectedOrgId))
        ELSE originalState
      copied == CopyParams(q, {"org_id"}, <<>>)
      clerkAuthUrl == IF Truthy(modifiedState)
                      THEN searchParamsSet(copied, "state", modifiedState)
                      ELSE copied
  IN
  IF ~Truthy(clientId) THEN Response("invalid_request", <<>>, FALSE)
  ELSE IF ~Truthy(selectedOrgId)
    THEN Response("redirect_select_org", SelectOrgParams(q), FALSE)
  ELSE IF ~clerkDomain THEN Response("server_error", <<>>, FALSE)
  ELSE IF stores /\ ~storeOk THEN Response("server_error", <<>>, FALSE)
  ELSE Response("redirect_upstream", clerkAuthUrl, stores)

\* the requests looked at
StateValues ==
  {EmptyString, <<"p">>,
   Base64(Stringify(<<"x">>, <<"O1">>)),
   Base64(Stringify(EmptyString, <<"O1">>)),
   Base64(<<"{", "}">>),
   Base64(<<"junk">>)}
Params ==
  {Param("client_id", <<c>>) : c \in Clients}
    \cup {Param("org_id", <<o>>) : o \in Orgs}
    \cup {Param("state", v) : v \in StateValues}
    \cup {Param("scope", <<v>>) : v \in {"a", "b"}}
Queries == UNION {[1..n -> Params] : n \in 0..MaxParams}

AuthorizeCall ==
  /\ authz.phase = "idle"
  /\ \E q \in Queries, clerkDomain \in BOOLEAN, storeOk \in BOOLEAN :
       authz' = [phase |-> "done", query |-> q, clerkDomain |-> clerkDomain,
                 storeOk |-> storeOk,
                 response |-> GET(q, clerkDomain, storeOk)]
  /\ UNCHANGED <<mainVars, conn, calls, kv>>

AuthorizeReturn ==
  /\ authz.phase = "done"
  /\ authz' = NoAuthz
  /\ UNCHANGED <<mainVars, conn, calls, kv>>

\* SpecAuthorize: one /authorize request after the other
NextAuthorize == AuthorizeCall \/ AuthorizeReturn

SpecAuthorize == InitStore /\ [][NextAuthorize]_vars

\* ------------------------------------------------------- the store keys
\* The store functions as writers of text: a key is its family prefix
\* followed by the client id or by the digest of the token, the value is
\* the org.  TTLs play no part here.
RawRefreshTokens == {"R1", "R2"}
RawJwts == {"J1"}
ClientKey(clientId) == <<"client:", clientId>>
JwtKey(jwt) == <<"jwt:">> \o hashJwt(jwt)
RefreshKey(refreshToken) == <<"refresh:">> \o hashOpaqueToken(refreshToken)

\* client.setEx(key, ttl, value) and client.del(key) on the entries
KvSetEx(entries, key, value) ==
  {e \in entries : e.key # key} \cup {[key |-> key, value |-> value]}
KvDel(entries, key) == {e \in entries : e.key # key}

\* setOrgIdForClientId
PersistClient ==
  /\ \E clientId \in Clients, orgId \in Orgs :
       kv' = [kv EXCEPT !.entries = KvSetEx(@, ClientKey(clientId), orgId)]
  /\ UNCHANGED <<mainVars, conn, calls, authz>>

\* setOrgIdForJwt: hashJwt throws without CLERK_SECRET_KEY
PersistJwt ==
  /\ envSecretKey
  /\ \E jwt \in RawJwts, orgId \in Orgs :
       kv' = [entries |-> KvSetEx(kv.entries, JwtKey(jwt), orgId),
              derived |-> kv.derived \cup {<<jwt, JwtKey(jwt)>>}]
  /\ UNCHANGED <<mainVars, conn, calls, authz>>

\* setOrgIdForRefreshToken
PersistRefresh ==
  /\ envSecretKey
  /\ \E refreshToken \in RawRefreshTokens, orgId \in Orgs :
       kv' = [entries |-> KvSetEx(kv.entries, RefreshKey(refreshToken), orgId),
              derived |-> kv.derived
                            \cup {<<refreshToken, RefreshKey(refreshToken)>>}]
  /\ UNCHANGED <<mainVars, conn, calls, authz>>

\* getOrgIdForRefreshTokenSliding: GET and EXPIRE of the key
LookupRefresh ==
  /\ envSecretKey
  /\ \E refreshToken \in RawRefreshTokens :
       kv' = [kv EXCEPT !.derived =
                @ \cup {<<refreshToken, RefreshKey(refreshToken)>>}]
  /\ UNCHANGED <<mainVars, conn, calls, authz>>

\* deleteOrgIdForRefreshToken
ForgetRefresh ==
  /\ envSecretKey
  /\ \E refreshToken \in RawRefreshTokens :
       kv' = [entries |-> KvDel(kv.entries, RefreshKey(refreshToken)),
              derived |-> kv.derived
                            \cup {<<refreshToken, RefreshKey(refreshToken)>>}]
  /\ UNCHANGED <<mainVars, conn, calls, authz>>

\* SpecKeys: the store functions called in any order, with and without
\* CLERK_SECRET_KEY
NextKeys ==
  PersistClient \/ PersistJwt \/ PersistRefresh \/ LookupRefresh
    \/ ForgetRefresh

SpecKeys == Init /\ [][NextKeys]_vars

\* ------------------------------------------------------------------ claims
Ok200(grant) == out.kind = "token" /\ out.status = "200" /\ out.grant = grant
InFlight(r) == req[r].pc # "idle"
\* the request has resolved its org and is at one of the store writes
Writing(r) == req[r].pc \in {"rt_del", "rt_set", "jwt_set"}
RefreshOrg(token) == Get(refreshMap, hashOpaqueToken(token))

\* C1 (invariant I1): when an authorization_code exchange returns 200, the
\* issued-token mapping and the refresh mapping of the returned tokens hold
\* the org with which the /authorize call of the exchanged code completed
\* (ephemeral clients), resp. the org_id of the token request (shared
\* clients), whatever /authorize calls fell in between.
I1_CodeOrgFixed ==
  Ok200("authorization_code") =>
    LET O == IF out.client \in SHARED_CLIENT_IDS THEN out.orgId
             ELSE out.code.org
    IN /\ Get(jwtMap, hashJwt(out.access_token)) = O
       /\ out.refresh_token # MissingToken => RefreshOrg(out.refresh_token) = O

\* C2 (invariant I2): the store never holds a client: key of a shared
\* client, and no /token request of a shared client is at the read of a
\* client: key.
I2_NoSharedClientKey ==
  /\ \A c \in SHARED_CLIENT_IDS : ~Present(clientMap, c)
  /\ \A r \in Slots : req[r].pc = "cl_get" => req[r].client \notin SHARED_CLIENT_IDS

\* C2 witness: a shared client went through /authorize and exchanged its code
I2_SharedExchangeDone ==
  Ok200("authorization_code") /\ out.client \in SHARED_CLIENT_IDS

\* C3: when a refresh_token grant presenting R1, whose org came from the
\* mapping of R1, returns 200 with a refresh token R2 # R1, the lookup of R1
\* fails and R2 resolves to the org that R1 mapped to.
RotationPostCondition ==
  (Ok200("refresh_token") /\ out.seenOrg = out.orgId
     /\ out.refresh_token \notin {MissingToken, out.presented}) =>
    /\ RefreshOrg(out.presented) = NoOrg
    /\ RefreshOrg(out.refresh_token) = out.seenOrg

\* C4: in a refresh_token grant whose org came from the mapping of the
\* presented token, the old mapping is deleted only when the returned token
\* differs, and in every intermediate state (also the one left behind when
\* the write of the new mapping fails) the presented or the returned token
\* resolves to the org.
RotationOrdering ==
  /\ \A r \in Slots :
       (req[r].grant = "refresh_token" /\ Writing(r)
          /\ req[r].seenOrg = req[r].orgId) =>
         /\ req[r].pc = "rt_del" => req[r].newRt # req[r].presented
         /\ \/ RefreshOrg(req[r].presented) = req[r].orgId
            \/ /\ req[r].newRt # MissingToken
               /\ RefreshOrg(req[r].newRt) = req[r].orgId
  /\ (out.kind = "token" /\ out.grant = "refresh_token"
        /\ out.status = "server_error" /\ out.orgId # NoOrg
        /\ out.seenOrg = out.orgId) =>
       RefreshOrg(out.presented) = out.orgId

\* C5: a successful authorization_code exchange of an ephemeral client has
\* deleted the client:<id> mapping it consumed.
ReplayPrevention ==
  (Ok200("authorization_code") /\ out.client \notin SHARED_CLIENT_IDS) =>
    ~Present(clientMap, out.client)

\* C6: in every refresh_token grant that goes on to the upstream, the org of
\* the request is the value the refresh: mapping of the presented token had
\* when the org was resolved, for every client kind and org_id field; a
\* request whose mapping was absent does not go on.
RefreshOrgSource ==
  \A r \in Slots :
    (req[r].grant = "refresh_token" /\ (req[r].pc = "fetch" \/ Writing(r))) =>
      /\ req[r].seenOrg # NoOrg
      /\ req[r].orgId = req[r].seenOrg

\* C7: whenever /token returns 200, the store holds, under the keyed hash of
\* the returned access_token, the org resolved for the request, with a TTL
\* equal to the returned expires_in.
IssuedTokenMapping ==
  (out.kind = "token" /\ out.status = "200") =>
    /\ out.orgId \in Orgs
    /\ jwtMap[hashJwt(out.access_token)]
         = [org |-> out.orgId, ttl |-> out.expires_in]

\* C7 witness: authorize(E1, O1), then a successful token(code, E1)
IssuedTokenScenario ==
  /\ Ok200("authorization_code")
  /\ out.client = "E1" /\ out.code.org = "O1"
  /\ Get(jwtMap, hashJwt(out.access_token)) = "O1"

\* the step in which request r gets the answer of GET client:<id>
ReadsClientMapping(r) == req[r].pc = "cl_get" /\ req'[r].pc # "cl_get"
\* the org a request holds after a step (in the response, if the step ended it)
OrgAfter(r) == IF req'[r].pc = "idle" THEN out'.orgId ELSE req'[r].orgId

RefreshRaceKeepsOrg ==
  \A r \in Slots : \A q \in Slots \ {r} :
    (InFlight(q) /\ req[q].grant = "refresh_token"
       /\ req[r].grant = "refresh_token" /\ Writing(r)
       /\ req[q].presented = req[r].presented) =>
      req[r].orgId = req[r].seenOrg

\* C10: a sliding read that returns an org leaves the mapping of the
\* presented token present, with that org and the full window as its TTL.
SlidingReadResetsTtl ==
  [][\A r \in Slots :
       (req[r].pc = "rt_expire" /\ req'[r].pc = "fetch") =>
         refreshMap'[hashOpaqueToken(req[r].presented)]
           = [org |-> req'[r].orgId, ttl |-> REFRESH_TOKEN_ORG_TTL]]_vars

\* the calls whose client.connect() has not settled, and those awaiting them
Connecting == {c \in Callers : calls[c].pc = "connecting"}
Awaiting == {c \in Callers : calls[c].pc = "awaiting"}

\* C11: the connection moves Disconnected -> Connecting -> Ready (and back to
\* Disconnected when an attempt fails or the socket goes); at most one
\* client.connect() is in flight at any time, exactly while connectPromise
\* is set; callers arriving meanwhile await that attempt; once it failed the
\* promise is cleared, so that a later caller starts a new attempt.
ConnectInFlightGuard ==
  /\ [](/\ Cardinality(Connecting) <= 1
        /\ (conn.connectPromise = "pending") <=> (Connecting # {})
        /\ (conn.state = "Connecting") <=> (Connecting # {})
        /\ Awaiting # {} => Connecting # {})
  /\ [][conn'.state # conn.state =>
          <<conn.state, conn'.state>> \in
            {<<"Disconnected", "Connecting">>, <<"Connecting", "Ready">>,
             <<"Connecting", "Disconnected">>, <<"Ready", "Disconnected">>}]_vars

\* C11 witness: one caller's attempt failed, a later caller has started a
\* new one and a third caller awaits it
SecondAttemptShared ==
  /\ \E c \in Callers : calls[c].result = "connect_error"
  /\ Connecting # {}
  /\ Awaiting # {}

\* C12: the operation of a store call is invoked at most twice; it is invoked
\* a second time exactly when the first invocation failed with a transient
\* socket error and the reconnect went through; a non-transient error, a
\* failed reconnect and any error of the second invocation reach the caller.
SingleRetry ==
  \A c \in Callers :
    LET cl == calls[c] IN
    /\ cl.attempts <= 2
    /\ cl.attempts = 2 => cl.first = "transient"
    /\ cl.pc = "done" =>
         /\ cl.result = "ok" <=>
              \/ cl.attempts = 1 /\ cl.first = ""
              \/ cl.attempts = 2 /\ cl.second = ""
         /\ cl.result = "op_error" <=>
              \/ cl.attempts = 1 /\ cl.first = "fatal"
              \/ cl.attempts = 2 /\ cl.second # ""
         /\ cl.result = "connect_error" <=>
              \/ cl.attempts = 0
              \/ cl.attempts = 1 /\ cl.first = "transient"

\* C12 witness: the retry after a reconnect failed too, and the caller got
\* the error
SecondAttemptFails ==
  \E c \in Callers :
    /\ calls[c].pc = "done" /\ calls[c].attempts = 2
    /\ calls[c].second = "transient" /\ calls[c].result = "op_error"

\* the step ends request r
Ends(r) == req[r].pc # "idle" /\ req'[r].pc = "idle"

\* C13: every /authorize and /token request ends in a redirect, a 200
\* response or a structured error with one of the four codes, whichever
\* step fails.
NoUnhandledFailure ==
  out.kind \in {"authorize", "token"} =>
    out.status \in {"redirect_select_org", "redirect_upstream", "200",
                    "invalid_request", "invalid_grant",
                    "unsupported_grant_type", "server_error"}

\* C14: a /token request that ends in an error has not created a refresh:
\* mapping: the mapping of a refresh token the upstream newly returned to it
\* does not exist when the error is sent.
NoPartialSuccess ==
  [][\A r \in Slots :
       (Ends(r) /\ out'.status # "200"
          /\ req[r].newRt \notin {MissingToken, req[r].presented}) =>
         ~Present(refreshMap', hashOpaqueToken(req[r].newRt))]_vars

UpstreamAnswered(r) == req[r].expiresIn # 0

\* C16: a refresh_token request is at the upstream call only with its org
\* resolved, it has no upstream response before that, and a refresh request
\* that ends without an org ends in a step before the upstream call.
RefreshResolvesFirst ==
  /\ [](\A r \in Slots :
          req[r].grant = "refresh_token" =>
            /\ req[r].pc = "fetch" => req[r].orgId \in Orgs
            /\ req[r].pc \in {"rt_get", "rt_expire", "fetch"} =>
                 ~UpstreamAnswered(r) /\ req[r].newRt = MissingToken)
  /\ [][\A r \in Slots :
          (req'[r].pc = "idle" /\ out'.kind = "token"
             /\ out'.grant = "refresh_token" /\ out'.orgId = NoOrg
             /\ req[r].pc # "idle") =>
            req[r].pc \in {"rt_get", "rt_expire"}]_vars

\* C16 witness: a refresh request whose lookup found no mapping was answered
\* with no upstream call made
RefreshRejectedBeforeUpstream ==
  /\ out.kind = "token" /\ out.grant = "refresh_token"
  /\ out.status = "invalid_grant" /\ out.orgId = NoOrg
  /\ out.presented # MissingToken
  /\ RefreshOrg(out.presented) = NoOrg

\* ------------------------------------------------- /authorize: its claims
\* the /authorize request that was answered, and what it asked
Answered == authz.phase = "done"
ReqClient == searchParamsGet(authz.query, "client_id")
ReqOrg == searchParamsGet(authz.query, "org_id")
ReqState == searchParamsGet(authz.query, "state")
IsShared == ReqClient \in {<<c>> : c \in SHARED_CLIENT_IDS}
IsEphemeral == Truthy(ReqClient) /\ ~IsShared
SentState == searchParamsGet(authz.response.params, "state")
Named(q, k) == LET Is(p) == p.k = k IN SelectSeq(q, Is)
\* the state is the base64 of a JSON object
IsEncoded(st) == st = Base64(FromBase64(st)) /\ IsObjectText(FromBase64(st))
\* the value the state is to carry as csrf: the csrf field of an encoded
\* incoming state that has one, the incoming state otherwise
CarriedCsrf(S) ==
  IF S = Null THEN EmptyString
  ELSE IF IsEncoded(S) /\ CsrfField(FromBase64(S)) # Null
    THEN CsrfField(FromBase64(S))
  ELSE S

\* C17: /authorize of a shared client with org O and incoming state S
\* redirects to upstream with a state that decodes to {csrf: c, org_id: O},
\* c being the csrf field of S when S is base64(JSON) with such a field and
\* S otherwise; and it writes nothing to the store.
SharedStateEncoding ==
  (Answered /\ IsShared /\ Truthy(ReqOrg) /\ authz.clerkDomain) =>
    /\ authz.response.status = "redirect_upstream"
    /\ ~authz.response.stored
    /\ IsEncoded(SentState)
    /\ CsrfField(FromBase64(SentState)) = CarriedCsrf(ReqState)
    /\ OrgIdField(FromBase64(SentState)) = ReqOrg

\* C18: decoding the state that /authorize made by encode(csrf, org), with
\* the rule /authorize decodes an incoming state by, gives back that csrf
\* and that org, the empty csrf of a request without state included.
StateRoundTrip ==
  (Answered /\ IsShared /\ authz.response.status = "redirect_upstream") =>
    /\ SentState = Base64(Stringify(CsrfToken(ReqState), ReqOrg))
    /\ CsrfToken(SentState) = CsrfToken(ReqState)
    /\ OrgIdField(FromBase64(SentState)) = ReqOrg

\* C19: for an ephemeral client the state sent to upstream is the
\* incoming state, no state is sent when none came in, and the org is not
\* in what is sent (requests with at most one state parameter).
EphemeralStatePassThrough ==
  (Answered /\ IsEphemeral /\ Truthy(ReqOrg) /\ authz.clerkDomain
     /\ authz.storeOk /\ Len(Named(authz.query, "state")) <= 1) =>
    /\ authz.response.status = "redirect_upstream"
    /\ Named(authz.response.params, "state") = Named(authz.query, "state")
    /\ Named(authz.response.params, "org_id") = <<>>
    /\ ~(IsEncoded(SentState) /\ OrgIdField(FromBase64(SentState)) = ReqOrg
           /\ SentState # ReqState)

\* an ephemeral client's plain state went to upstream
EphemeralStateSent ==
  /\ Answered /\ IsEphemeral /\ Truthy(ReqOrg)
  /\ authz.response.status = "redirect_upstream"
  /\ ReqState = <<"p">> /\ SentState = <<"p">>
  /\ Len(authz.query) = MaxParams

\* no parameter name comes twice in the query
NoRepeats(q) == \A i, j \in 1..Len(q) : q[i].k = q[j].k => i = j

PostFetch == {"cl_get", "rt_del", "rt_set", "jwt_set"}

\* C21: every /token request calls the upstream token endpoint at most
\* once: a request gets to the fetch only from a step before it, and once
\* at the fetch it goes on to the store steps after it or ends, whatever the
\* upstream and the store answer.
UpstreamNotRetried ==
  [][\A r \in Slots :
       /\ (req'[r].pc = "fetch" /\ req'[r] # req[r]) =>
            req[r].pc \in {"idle", "rt_expire"}
       /\ (req[r].pc \in PostFetch \cup {"fetch"} /\ req'[r] # req[r]) =>
            req'[r].pc \in PostFetch \cup {"idle"}]_vars

\* the upstream has answered a refresh and the store writes that follow it
\* have begun
StoreWritesAfterUpstream ==
  \E r \in Slots :
    /\ req[r].pc = "jwt_set" /\ req[r].grant = "refresh_token"
    /\ req[r].newRt # MissingToken
    /\ Present(refreshMap, hashOpaqueToken(req[r].newRt))

\* a digest, as opposed to any text a caller can send
IsDigest(d) == Len(d) = 2 /\ d[1] = "hmac"
RawTokens == RawRefreshTokens \cup RawJwts

\* C22: every key of the refresh and issued-token families is the family
\* prefix and the keyed digest of a token; no key and no value is a raw
\* token, alone or behind a prefix; and a token is always turned into the
\* same key.
RawTokensNeverPersisted ==
  /\ \A e \in kv.entries :
       /\ e.key[1] \in {"client:", "refresh:", "jwt:"}
       /\ e.key[1] \in {"refresh:", "jwt:"} => IsDigest(Tail(e.key))
       /\ \A t \in RawTokens :
            /\ e.key # <<t>> /\ Tail(e.key) # <<t>>
            /\ e.value # t
  /\ \A d1, d2 \in kv.derived : d1[1] = d2[1] => d1[2] = d2[2]

\* the three families hold entries: one issued token, both refresh
\* tokens, a client
DigestKeysInUse ==
  /\ \E e \in kv.entries : e.key[1] = "jwt:"
  /\ Cardinality({e \in kv.entries : e.key[1] = "refresh:"}) = 2
  /\ \E e \in kv.entries : e.key[1] = "client:"

\* the step answers request r with 200
Answers200(r) ==
  /\ req[r].pc = "jwt_set" /\ req'[r].pc = "idle"
  /\ out'.kind = "token" /\ out'.status = "200"

\* C23: the 200 response is the upstream response with access_token
\* replaced by the minted token, which is the id_token the upstream
\* returned, and expires_in set to that token's lifetime; the refresh_token
\* field is the upstream's, present or not.
TokenResponseFields ==
  [][\A r \in Slots :
       Answers200(r) =>
         /\ req[r].idToken
         /\ out'.access_token \in Jwts
         /\ ~Present(jwtMap, hashJwt(out'.access_token))
         /\ jwtMap'[hashJwt(out'.access_token)].ttl = out'.expires_in
         /\ out'.expires_in = req[r].expiresIn
         /\ out'.refresh_token = req[r].newRt]_vars

\* a refresh was answered 200 with the rotated refresh token the upstream
\* returned
RotatedTokenReturned ==
  /\ Ok200("refresh_token")
  /\ out.refresh_token \notin {MissingToken, out.presented}
  /\ out.access_token \in Jwts

\* the mappings of map m are those of map n: the same keys, the same orgs
SameMappings(m, n) ==
  \A k \in DOMAIN m : Present(m, k) = Present(n, k) /\ Get(m, k) = Get(n, k)

\* C24: a non-2xx answer of the upstream ends the request in invalid_grant,
\* and no step of a request up to and including its upstream call creates
\* or deletes a mapping or changes its org: the only store effect of a
\* refresh that the upstream rejects is the TTL of the mapping it read.
UpstreamRejection ==
  /\ [](out.upstream = "non-2xx" =>
          out.kind = "token" /\ out.status = "invalid_grant")
  /\ [][\A r \in Slots :
          (req[r].pc \notin PostFetch /\ req'[r] # req[r]) =>
            /\ clientMap' = clientMap /\ jwtMap' = jwtMap
            /\ SameMappings(refreshMap, refreshMap')
            /\ \A k \in RefreshKeys :
                 refreshMap'[k] # refreshMap[k] =>
                   /\ k = hashOpaqueToken(req[r].presented)
                   /\ req[r].pc = "rt_expire"]_vars

\* the upstream rejected a refresh whose mapping the sliding read had found
RefreshRejectedByUpstream ==
  /\ out.upstream = "non-2xx" /\ out.grant = "refresh_token"
  /\ out.seenOrg # NoOrg
  /\ RefreshOrg(out.presented) = out.seenOrg
  /\ refreshMap[hashOpaqueToken(out.presented)].ttl = REFRESH_TOKEN_ORG_TTL

FirstIssuance(rq) ==
  rq.grant = "authorization_code" /\ rq.newRt # MissingToken

UnsupportedGrantType ==
  (/\ out.kind = "token"
   /\ out.grant \in GrantTypes \ {"authorization_code", "refresh_token"}
   /\ out.client # NoClient
   /\ out.status # "server_error") =>
    out.status = "unsupported_grant_type"

\* the incoming state is one that /authorize makes for the org of the
\* request, from some incoming state or from none
MadeByAuthorize ==
  \E S \in StateValues \cup {Null} :
    ReqState = Base64(Stringify(CsrfToken(S), ReqOrg))

\* C28: for a shared client, a state that /authorize produced, sent through
\* /authorize again with the same org, comes out as it went in (the csrf is
\* taken out of it, not the whole state wrapped), whatever state or absence
\* of state it was first made from.
ReencodingIdempotent ==
  (Answered /\ IsShared /\ authz.response.status = "redirect_upstream"
     /\ MadeByAuthorize) =>
    SentState = ReqState

\* every mapping of map m holds an org
HoldsOrgs(m) == \A k \in DOMAIN m : Present(m, k) => m[k].org \in Orgs

\* C29: every value stored under a client:, refresh: or jwt: key is a
\* non-empty org id; a /token request is at its store writes only with a
\* non-empty resolved org; and an /authorize without org (absent or empty
\* org_id) writes nothing.
NonEmptyOrg ==
  /\ [](HoldsOrgs(clientMap) /\ HoldsOrgs(refreshMap) /\ HoldsOrgs(jwtMap))
  /\ [](\A r \in Slots : Writing(r) => req[r].orgId \in Orgs)
  /\ [][(out'.kind = "authorize" /\ out'.orgId = NoOrg) =>
          clientMap' = clientMap]_vars

\* the three families hold mappings of one exchange, each with its org
AllFamiliesMapped ==
  /\ Ok200("authorization_code")
  /\ out.refresh_token # MissingToken
  /\ Get(clientMap, out.client) \in Orgs
  /\ RefreshOrg(out.refresh_token) = out.orgId
  /\ Get(jwtMap, hashJwt(out.access_token)) = out.orgId

\* the step leaves the mapping of the token that request r presented
\* holding the org it held when the request resolved its org
KeepsPresented(r) ==
  Present(refreshMap', hashOpaqueToken(req[r].presented)) =>
    Get(refreshMap', hashOpaqueToken(req[r].presented)) = req[r].seenOrg

\* C30: a refresh_token grant on a token that has a mapping, to which the
\* upstream returns no refresh token, makes no write to refresh: after its
\* upstream call, and at its 200 the mapping of the presented token, while
\* it lives, holds the org it held; when the upstream returns the
\* presented token itself, the write of step 8 leaves its mapping present
\* with that same org, and so does the 200.
RefreshWithoutNewToken ==
  [][\A r \in Slots :
       (req[r].grant = "refresh_token" /\ req[r].seenOrg # NoOrg) =>
         /\ (req[r].pc \in PostFetch /\ req[r].newRt = MissingToken
               /\ req'[r] # req[r]) =>
              /\ refreshMap' = refreshMap
              /\ KeepsPresented(r)
         /\ (req[r].pc = "rt_set" /\ req'[r].pc = "jwt_set"
               /\ req[r].newRt = req[r].presented) =>
              refreshMap'[hashOpaqueToken(req[r].presented)]
                = [org |-> req[r].seenOrg, ttl |-> REFRESH_TOKEN_ORG_TTL]
         /\ (Answers200(r) /\ req[r].newRt = req[r].presented) =>
              KeepsPresented(r)]_vars

====
